---- MODULE Spec2Model ----
(***************************************************************************)
(* Model of send_tcp.c: one IPv4 + TCP segment is laid out in user space,  *)
(* its two Internet checksums are computed, and the PDU is handed to a raw *)
(* socket.                                                                 *)
(*                                                                         *)
(* Memory is modelled byte by byte as the little-endian build (gcc,        *)
(* x86-64) lays it out: a uint16_t/uint32_t is stored low byte first and   *)
(* bit-fields are allocated from the least significant bit of their byte.  *)
(* The wire carries the bytes of memory in address order.                  *)
(***************************************************************************)
EXTENDS Integers, Sequences, FiniteSets, TLC

VARIABLES
    pc,           \* position of the process
    argv,         \* command line of main, or NoArgv when send_tcp_packet is called directly
    arg,          \* the arguments of the current send_tcp_packet call
    iph,          \* memory image of struct ip_header iph
    tcph,         \* memory image of struct tcp_header tcph
    ph,           \* memory image of struct pseudo_header ph
    PDU,          \* contents of the PDU buffer
    nullDeref,    \* a memcpy has stored through a null pointer returned by malloc
    sockfd,       \* result of socket()
    sendto_calls, \* the sendto() requests made, in order
    stderr,       \* lines written to stderr, in order
    exit_status,  \* exit status of the process once it has ended
    ck            \* registers of one stand-alone run of checksum()

vars == <<pc, argv, arg, iph, tcph, ph, PDU, nullDeref, sockfd, sendto_calls,
          stderr, exit_status, ck>>

sendVars == <<pc, argv, arg, iph, tcph, ph, PDU, nullDeref, sockfd,
              sendto_calls, stderr, exit_status>>

----------------------------------------------------------------------------
(* Bounds of the model *)

\* longest payload given byte by byte (longer payloads continue with zero bytes)
MaxData == 1
\* longest byte range handed to the stand-alone checksum()
MaxCkLen == 6

----------------------------------------------------------------------------
(* Fixed-width integers and their memory images *)

Byte == 0..255

U16(x) == x % 65536

\* A uint32_t value is written as its four base-256 digits, most significant
\* first (the values exceed the integers of the model checker).
Num32(hi16, lo16) == <<hi16 \div 256, hi16 % 256, lo16 \div 256, lo16 % 256>>

\* uint16_t / uint32_t object as it lies in memory (little-endian host)
Store16(v) == <<v % 256, (v \div 256) % 256>>
Store32(v) == <<v[4], v[3], v[2], v[1]>>

\* value of the uint16_t / uint32_t object at 1-based offset i of byte sequence m
Load16(m, i) == m[i] + 256 * m[i + 1]
Load32(m, i) == <<m[i + 3], m[i + 2], m[i + 1], m[i]>>

htons(x) == (U16(x) % 256) * 256 + (U16(x) \div 256)
htonl(x) == <<x[4], x[3], x[2], x[1]>>

\* inet_addr of the text a.b.c.d, given as its numbers <<a, b, c, d>>: the
\* address in network byte order, i.e. the uint32_t whose memory image is
\* <<a, b, c, d>>; INADDR_NONE when the text is no dotted quad
inet_addr(s) ==
    IF Len(s) = 4 /\ \A i \in 1..4 : s[i] \in Byte THEN Load32(s, 1) ELSE Num32(65535, 65535)

\* atoi of a text of decimal digits, given as the sequence of its digits
RECURSIVE atoi(_)
atoi(s) == IF s = <<>> THEN 0 ELSE 10 * atoi(SubSeq(s, 1, Len(s) - 1)) + s[Len(s)]

----------------------------------------------------------------------------
(* Buffers: b is the bytes given one by one, z the number of zero bytes that
   follow them. *)

Mem(s) == [b |-> s, z |-> 0]
BufLen(p) == Len(p.b) + p.z
ByteAt(p, i) == IF i <= Len(p.b) THEN p.b[i] ELSE 0

\* the first n bytes of p (memcpy(dst, p, n))
Take(p, n) ==
    IF n <= Len(p.b) THEN [b |-> SubSeq(p.b, 1, n), z |-> 0]
    ELSE [b |-> p.b, z |-> n - Len(p.b)]

\* s followed by p
Cat(s, p) == [b |-> s \o p.b, z |-> p.z]

----------------------------------------------------------------------------
(* checksum() *)

\* *ptr for a uint16_t *ptr at 1-based offset i
Word16At(p, i) == ByteAt(p, i) + 256 * ByteAt(p, i + 1)

\* while(num_bytes > 1) { sum += *ptr; ptr++; num_bytes -= 2; }
\* Past the bytes given one by one every word is 0 and leaves sum unchanged.
RECURSIVE SumWords(_, _, _, _)
SumWords(p, ptr, num_bytes, sum) ==
    IF num_bytes > 1
    THEN IF ptr > Len(p.b)
         THEN [sum |-> sum, ptr |-> ptr + 2 * (num_bytes \div 2), num_bytes |-> num_bytes % 2]
         ELSE SumWords(p, ptr + 2, num_bytes - 2, sum + Word16At(p, ptr))
    ELSE [sum |-> sum, ptr |-> ptr, num_bytes |-> num_bytes]

\* mutant of OddByte: the odd byte becomes the high byte of the host-order value
OddByte_high(p, ptr) == 256 * ByteAt(p, ptr)

\* oddbyte = 0; *((uint8_t *)&oddbyte) = *(uint8_t *)ptr;
OddByte(p, ptr) == Load16(<<ByteAt(p, ptr), 0>>, 1)

\* if(num_bytes == 1) { ...; sum += oddbyte; }
AddOdd(p, r) == IF r.num_bytes = 1 THEN r.sum + OddByte(p, r.ptr) ELSE r.sum

\* sum = (sum >> 16) + (sum & 0xFFFF);
Fold1(sum) == (sum \div 65536) + (sum % 65536)

\* mutant of Fold2: the second fold is left out
Fold2_skipped(sum) == sum

\* sum = sum + (sum >> 16);
Fold2(sum) == sum + (sum \div 65536)

\* answer = ~sum; return answer;   (int16_t answer returned as uint16_t)
Answer(sum) == 65535 - (sum % 65536)

checksum(p, num_bytes) ==
    Answer(Fold2(Fold1(AddOdd(p, SumWords(p, 1, num_bytes, 0)))))

----------------------------------------------------------------------------
(* Memory images of the three structs *)

\* value held by a bit-field of the given width after v is assigned to it
Bits(v, width) == v % (2 ^ width)

\* struct ip_header: ihl:4 and version:4 share byte 0 (ihl in the low nibble),
\* flags:3 and fragment_offset:13 share bytes 6-7 (flags in the low bits)
ip_header(f) ==
    <<Bits(f.ihl, 4) + 16 * Bits(f.version, 4), Bits(f.tos, 8)>>
    \o Store16(f.total_length)
    \o Store16(f.identification)
    \o Store16(Bits(f.flags, 3) + 8 * Bits(f.fragment_offset, 13))
    \o <<f.ttl, f.protocol>>
    \o Store16(f.header_checksum)
    \o Store32(f.source_address)
    \o Store32(f.destination_address)

\* mutant of flag_byte: the six flags in the order the RFC draws them (urg lowest)
flag_byte_rfc_order(f) ==
    Bits(f.urg, 1) + 2 * Bits(f.ack, 1) + 4 * Bits(f.psh, 1) + 8 * Bits(f.rst, 1)
    + 16 * Bits(f.syn, 1) + 32 * Bits(f.fin, 1) + 64 * Bits(f.reserved2, 2)

\* byte 13 of struct tcp_header: fin:1, syn:1, rst:1, psh:1, ack:1, urg:1, reserved2:2
flag_byte(f) ==
    Bits(f.fin, 1) + 2 * Bits(f.syn, 1) + 4 * Bits(f.rst, 1) + 8 * Bits(f.psh, 1)
    + 16 * Bits(f.ack, 1) + 32 * Bits(f.urg, 1) + 64 * Bits(f.reserved2, 2)

\* struct tcp_header: reserved1:4 and data_offset:4 share byte 12 (reserved1 low)
tcp_header(f) ==
    Store16(f.source_port)
    \o Store16(f.destination_port)
    \o Store32(f.sequence_number)
    \o Store32(f.acknowledgment_number)
    \o <<Bits(f.reserved1, 4) + 16 * Bits(f.data_offset, 4), flag_byte(f)>>
    \o Store16(f.window)
    \o Store16(f.checksum)
    \o Store16(f.urgent_pointer)

\* struct pseudo_header
pseudo_header(f) ==
    Store32(f.source_address)
    \o Store32(f.destination_address)
    \o <<f.reserved, f.protocol>>
    \o Store16(f.tcp_length)

\* sizeof(struct ip_header), sizeof(struct tcp_header), sizeof(struct pseudo_header)
SizeofIpHeader == 20
SizeofTcpHeader == 20
SizeofPseudoHeader == 12

\* offsets (1-based) of the members the code assigns after initialisation
OffIpChecksum == 11
OffTcpChecksum == 17

\* m with the uint16_t at offset i set to v
Assign16(m, i, v) == [m EXCEPT ![i] = Store16(v)[1], ![i + 1] = Store16(v)[2]]

IPPROTO_TCP == 6
SYN == 2

----------------------------------------------------------------------------
(* send_tcp_packet and what it calls *)

\* const uint16_t total_length = sizeof(struct ip_header) + sizeof(struct tcp_header) + data_length;
total_length(a) == U16(SizeofIpHeader + SizeofTcpHeader + a.data_length)

\* struct ip_header iph = { ... };  members not named are zero
iph_init(a) ==
    ip_header([version |-> 4, ihl |-> 5, tos |-> 0,
               total_length |-> htons(total_length(a)),
               identification |-> 0,
               fragment_offset |-> 0, ttl |-> 64, protocol |-> IPPROTO_TCP, flags |-> 0,
               header_checksum |-> 0,
               source_address |-> a.source_address,
               destination_address |-> a.destination_address])

\* mutant of iph_final: the checksum is byte-swapped before it is stored
iph_final_swapped(a) ==
    Assign16(iph_init(a), OffIpChecksum, htons(checksum(Mem(iph_init(a)), SizeofIpHeader)))

\* iph.header_checksum = checksum(&iph, sizeof(struct ip_header));
iph_final(a) ==
    Assign16(iph_init(a), OffIpChecksum, checksum(Mem(iph_init(a)), SizeofIpHeader))

\* (flags & (1 << k)) >> k
MaskShift(flags, k) == (flags \div (2 ^ k)) % 2

\* mutant of tcph_init: the ports and numbers are byte-swapped by send_tcp_packet
tcph_init_swapped(a) ==
    tcp_header([source_port |-> htons(a.source_port),
                destination_port |-> htons(a.destination_port),
                sequence_number |-> htonl(a.sequence_number),
                acknowledgment_number |-> htonl(a.acknowledgement_number),
                reserved1 |-> 0, reserved2 |-> 0,
                data_offset |-> 5,
                fin |-> MaskShift(a.flags, 0),
                syn |-> MaskShift(a.flags, 1),
                rst |-> MaskShift(a.flags, 2),
                psh |-> MaskShift(a.flags, 3),
                ack |-> MaskShift(a.flags, 4),
                urg |-> MaskShift(a.flags, 5),
                window |-> htons(32768),
                checksum |-> 0,
                urgent_pointer |-> 0])

\* struct tcp_header tcph = { ... };
tcph_init(a) ==
    tcp_header([source_port |-> a.source_port,
                destination_port |-> a.destination_port,
                sequence_number |-> a.sequence_number,
                acknowledgment_number |-> a.acknowledgement_number,
                reserved1 |-> 0, reserved2 |-> 0,
                data_offset |-> 5,
                fin |-> MaskShift(a.flags, 0),
                syn |-> MaskShift(a.flags, 1),
                rst |-> MaskShift(a.flags, 2),
                psh |-> MaskShift(a.flags, 3),
                ack |-> MaskShift(a.flags, 4),
                urg |-> MaskShift(a.flags, 5),
                window |-> htons(32768),
                checksum |-> 0,
                urgent_pointer |-> 0])

\* mutant of build_pseudo_header: the TCP length leaves out the TCP header
build_pseudo_header_payload_only(ih, options_length, tcp_payload_length) ==
    pseudo_header([source_address |-> Load32(ih, 13),
                   destination_address |-> Load32(ih, 17),
                   reserved |-> 0,
                   protocol |-> ih[10],
                   tcp_length |-> htons(U16(options_length) + U16(tcp_payload_length))])

\* build_pseudo_header(&ph, &tcph, &iph, NULL, 0, data, data_length): the two
\* lengths arrive as uint16_t
build_pseudo_header(ih, options_length, tcp_payload_length) ==
    pseudo_header([source_address |-> Load32(ih, 13),
                   destination_address |-> Load32(ih, 17),
                   reserved |-> 0,
                   protocol |-> ih[10],
                   tcp_length |-> htons(SizeofTcpHeader + U16(options_length)
                                        + U16(tcp_payload_length))])

\* int psize = sizeof(struct pseudo_header) + sizeof(struct tcp_header) + data_length;
psize(data_length) == SizeofPseudoHeader + SizeofTcpHeader + U16(data_length)

\* the three memcpy into csum_buffer
csum_buffer(p, th, data, data_length) == Cat(p \o th, Take(data, U16(data_length)))

\* tcph->checksum = checksum(csum_buffer, psize);
build_tcp_checksum(p, th, data, data_length) ==
    Assign16(th, OffTcpChecksum,
             checksum(csum_buffer(p, th, data, data_length), psize(data_length)))

\* the three memcpy into PDU
pdu_bytes(ih, th, a) == Cat(ih \o th, Take(a.data, a.data_length))

\* struct internet_socket_address sin = { ... };
sin_init(a) == [family |-> 2, port |-> a.destination_port, address |-> a.destination_address]

----------------------------------------------------------------------------
(* Inputs *)

\* all sequences over S of length at most n
RECURSIVE SeqsUpTo(_, _)
SeqsUpTo(S, n) ==
    IF n = 0 THEN {<<>>}
    ELSE LET shorter == SeqsUpTo(S, n - 1)
         IN shorter \cup {Append(q, x) : q \in {r \in shorter : Len(r) = n - 1}, x \in S}

\* payload lengths around the largest one whose total length fits 16 bits
LongLengths == {65494, 65495, 65496}

DataBytes == {65, 255}

\* a payload of data_length bytes: the bytes of head, then zero bytes
Payloads ==
    {[data |-> [b |-> c[1], z |-> c[2] - Len(c[1])], data_length |-> c[2]] :
        c \in {d \in SeqsUpTo(DataBytes, MaxData) \X ((0..MaxData) \cup LongLengths) :
                   d[2] >= Len(d[1])}}

SourceAddresses == {inet_addr(<<10, 0, 0, 1>>), inet_addr(<<255, 255, 255, 255>>)}
DestinationAddresses == {inet_addr(<<10, 0, 0, 2>>)}
SourcePorts == {12345, htons(12345)}
DestinationPorts == {htons(80)}
SequenceNumbers == {Num32(0, 4096)}
AcknowledgementNumbers == {Num32(0, 1)}
Flags == 0..255

\* command lines: argc, and argv[1..5] (dotted quads as their numbers, ports
\* as their decimal digits, the payload text as its non-zero bytes)
CommandLines ==
    {c \in [argc : 4..7,
            src_ip : {<<10, 0, 0, 1>>},
            src_port : {<<1, 2, 3, 4, 5>>, <<6, 5, 6, 1, 6>>},
            dst_ip : {<<10, 0, 0, 2>>, <<10, 0, 0, 256>>},
            dst_port : {<<8, 0>>},
            data : SeqsUpTo(DataBytes, MaxData)] :
        c.argc >= 6 \/ c.data = <<>>}

\* no command line: send_tcp_packet is called by other code
NoArgv == [argc |-> 0, src_ip |-> <<>>, src_port |-> <<>>, dst_ip |-> <<>>,
           dst_port |-> <<>>, data |-> <<>>]

NoArg == [source_address |-> Num32(0, 0), source_port |-> 0,
          destination_address |-> Num32(0, 0), destination_port |-> 0,
          sequence_number |-> Num32(0, 0), acknowledgement_number |-> Num32(0, 0),
          flags |-> 0, data |-> Mem(<<>>), data_length |-> 0]

CkIdle == [pc |-> "idle", p |-> Mem(<<>>), num_bytes |-> 0, ptr |-> 1, sum |-> 0, answer |-> 0]

----------------------------------------------------------------------------
(* The process *)

Init ==
    /\ argv \in CommandLines \cup {NoArgv}
    /\ pc = IF argv.argc = 0 THEN "caller" ELSE "main"
    /\ arg = NoArg
    /\ iph = <<>>
    /\ tcph = <<>>
    /\ ph = <<>>
    /\ PDU = Mem(<<>>)
    /\ nullDeref = FALSE
    /\ sockfd = -2
    /\ sendto_calls = <<>>
    /\ stderr = <<>>
    /\ exit_status = -1
    /\ ck = CkIdle

\* main: if(argc != 5 && argc != 6) { fprintf(stderr, "Usage: ..."); return 1; }
main_usage ==
    /\ pc = "main"
    /\ argv.argc # 5 /\ argv.argc # 6
    /\ stderr' = Append(stderr, "Usage")
    /\ exit_status' = 1
    /\ pc' = "exited"
    /\ UNCHANGED <<argv, arg, iph, tcph, ph, PDU, nullDeref, sockfd, sendto_calls, ck>>

\* the arguments main passes to send_tcp_packet; without argv[5] data is NULL
\* and data_length 0, and every memcpy from data copies no byte
main_args(av) ==
    [source_address |-> inet_addr(av.src_ip),
     source_port |-> htons(atoi(av.src_port)),
     destination_address |-> inet_addr(av.dst_ip),
     destination_port |-> htons(atoi(av.dst_port)),
     sequence_number |-> htonl(Num32(0, 4096)),
     acknowledgement_number |-> htonl(Num32(0, 0)),
     flags |-> SYN,
     data |-> IF av.argc = 6 THEN Mem(av.data) ELSE Mem(<<>>),
     data_length |-> IF av.argc = 6 THEN Len(av.data) ELSE 0]

\* main: parse argv and call send_tcp_packet
main_send ==
    /\ pc = "main"
    /\ argv.argc = 5 \/ argv.argc = 6
    /\ arg' = main_args(argv)
    /\ pc' = "ip_header"
    /\ UNCHANGED <<argv, iph, tcph, ph, PDU, nullDeref, sockfd, sendto_calls, stderr,
                   exit_status, ck>>

\* send_tcp_packet called by other code with arguments of its choice
caller_send ==
    /\ pc = "caller"
    /\ \E sa \in SourceAddresses, sp \in SourcePorts, da \in DestinationAddresses,
          dp \in DestinationPorts, sq \in SequenceNumbers, ak \in AcknowledgementNumbers,
          fl \in Flags, pl \in Payloads :
            arg' = [source_address |-> sa, source_port |-> sp,
                    destination_address |-> da, destination_port |-> dp,
                    sequence_number |-> sq, acknowledgement_number |-> ak,
                    flags |-> fl, data |-> pl.data, data_length |-> pl.data_length]
    /\ pc' = "ip_header"
    /\ UNCHANGED <<argv, iph, tcph, ph, PDU, nullDeref, sockfd, sendto_calls, stderr,
                   exit_status, ck>>

\* send_tcp_packet: struct ip_header iph = {...}; iph.header_checksum = checksum(...)
send_ip_header ==
    /\ pc = "ip_header"
    /\ iph' = iph_final(arg)
    /\ pc' = "tcp_header"
    /\ UNCHANGED <<argv, arg, tcph, ph, PDU, nullDeref, sockfd, sendto_calls, stderr,
                   exit_status, ck>>

\* send_tcp_packet: struct tcp_header tcph = {...}; build_pseudo_header(...)
send_tcp_header ==
    /\ pc = "tcp_header"
    /\ tcph' = tcph_init(arg)
    /\ ph' = build_pseudo_header(iph, 0, arg.data_length)
    /\ pc' = "tcp_checksum"
    /\ UNCHANGED <<argv, arg, iph, PDU, nullDeref, sockfd, sendto_calls, stderr,
                   exit_status, ck>>

\* What a malloc followed by memcpy into its result can do: the allocation
\* succeeds; or it returns NULL and the store through it is undefined: the
\* store faults and the process is killed by SIGSEGV, or page 0 is mapped and
\* the store and the later loads go through.
MallocOutcomes == {"ok", "null_fault", "null_mapped"}

\* send_tcp_packet: build_tcp_checksum(&ph, &tcph, NULL, 0, data, data_length)
send_tcp_checksum ==
    /\ pc = "tcp_checksum"
    /\ \E m \in MallocOutcomes :
        /\ nullDeref' = (nullDeref \/ m # "ok")
        /\ IF m = "null_fault"
           THEN /\ pc' = "killed"
                /\ exit_status' = 139
                /\ tcph' = tcph
           ELSE /\ pc' = "pdu"
                /\ exit_status' = exit_status
                /\ tcph' = build_tcp_checksum(ph, tcph, arg.data, arg.data_length)
    /\ UNCHANGED <<argv, arg, iph, ph, PDU, sockfd, sendto_calls, stderr, ck>>

\* send_tcp_packet: void* PDU = malloc(...); memcpy x 3
\* (print_bytes then writes the PDU to stdout and changes nothing modelled here)
send_pdu ==
    /\ pc = "pdu"
    /\ \E m \in MallocOutcomes :
        /\ nullDeref' = (nullDeref \/ m # "ok")
        /\ IF m = "null_fault"
           THEN /\ pc' = "killed"
                /\ exit_status' = 139
                /\ PDU' = PDU
           ELSE /\ pc' = "socket"
                /\ exit_status' = exit_status
                /\ PDU' = pdu_bytes(iph, tcph, arg)
    /\ UNCHANGED <<argv, arg, iph, tcph, ph, sockfd, sendto_calls, stderr, ck>>

\* send_tcp_packet: int sockfd = socket(AF_INET, SOCK_RAW, IPPROTO_RAW);
\*                  if(sockfd < 0) { fprintf(stderr, "Error creating socket\n"); }
send_socket ==
    /\ pc = "socket"
    /\ \E fd \in {-1, 3} :
        /\ sockfd' = fd
        /\ stderr' = IF fd < 0 THEN Append(stderr, "Error creating socket") ELSE stderr
    /\ pc' = "sendto"
    /\ UNCHANGED <<argv, arg, iph, tcph, ph, PDU, nullDeref, sendto_calls, exit_status, ck>>

\* what sendto can return: -1 on a descriptor that is no socket, else -1 or
\* the number of bytes sent
SendtoResults(fd, len) == IF fd < 0 THEN {-1} ELSE {-1, len}

\* send_tcp_packet: if(sendto(sockfd, PDU, total_length, 0, &sin, sizeof(sin)) < 0)
\*                      { fprintf(stderr, "Error sending packet\n"); }
send_sendto ==
    /\ pc = "sendto"
    /\ \E r \in SendtoResults(sockfd, total_length(arg)) :
        /\ sendto_calls' = Append(sendto_calls,
                                  [fd |-> sockfd, buf |-> Take(PDU, total_length(arg)),
                                   len |-> total_length(arg), to |-> sin_init(arg),
                                   result |-> r])
        /\ stderr' = IF r < 0 THEN Append(stderr, "Error sending packet") ELSE stderr
    /\ pc' = "free"
    /\ UNCHANGED <<argv, arg, iph, tcph, ph, PDU, nullDeref, sockfd, exit_status, ck>>

\* send_tcp_packet: free(PDU); and the return to the caller
send_return ==
    /\ pc = "free"
    /\ pc' = IF argv.argc = 0 THEN "returned" ELSE "main_return"
    /\ UNCHANGED <<argv, arg, iph, tcph, ph, PDU, nullDeref, sockfd, sendto_calls,
                   stderr, exit_status, ck>>

\* main: return 0;
main_return ==
    /\ pc = "main_return"
    /\ exit_status' = 0
    /\ pc' = "exited"
    /\ UNCHANGED <<argv, arg, iph, tcph, ph, PDU, nullDeref, sockfd, sendto_calls,
                   stderr, ck>>

Next ==
    \/ main_usage
    \/ main_send
    \/ caller_send
    \/ send_ip_header
    \/ send_tcp_header
    \/ send_tcp_checksum
    \/ send_pdu
    \/ send_socket
    \/ send_sendto
    \/ send_return
    \/ main_return

Spec == Init /\ [][Next]_vars

----------------------------------------------------------------------------
(* checksum() on its own, statement by statement, over arbitrary byte ranges *)

CkBytes == {0, 1, 255}

InitCk ==
    /\ pc = "off"
    /\ argv = NoArgv
    /\ arg = NoArg
    /\ iph = <<>>
    /\ tcph = <<>>
    /\ ph = <<>>
    /\ PDU = Mem(<<>>)
    /\ nullDeref = FALSE
    /\ sockfd = -2
    /\ sendto_calls = <<>>
    /\ stderr = <<>>
    /\ exit_status = -1
    /\ ck \in {[pc |-> "loop", p |-> Mem(q), num_bytes |-> Len(q), ptr |-> 1, sum |-> 0,
                answer |-> 0] : q \in SeqsUpTo(CkBytes, MaxCkLen)}

\* while(num_bytes > 1) { sum += *ptr; ptr++; num_bytes -= 2; }
ck_loop ==
    /\ ck.pc = "loop"
    /\ ck.num_bytes > 1
    /\ ck' = [ck EXCEPT !.sum = ck.sum + Word16At(ck.p, ck.ptr),
                        !.ptr = ck.ptr + 2,
                        !.num_bytes = ck.num_bytes - 2]
    /\ UNCHANGED sendVars

\* if(num_bytes == 1) { oddbyte = 0; ...; sum += oddbyte; }
ck_odd ==
    /\ ck.pc = "loop"
    /\ ck.num_bytes <= 1
    /\ ck' = [ck EXCEPT !.sum = AddOdd(ck.p, ck), !.pc = "fold1"]
    /\ UNCHANGED sendVars

\* sum = (sum >> 16) + (sum & 0xFFFF);
ck_fold1 ==
    /\ ck.pc = "fold1"
    /\ ck' = [ck EXCEPT !.sum = Fold1(ck.sum), !.pc = "fold2"]
    /\ UNCHANGED sendVars

\* sum = sum + (sum >> 16);
ck_fold2 ==
    /\ ck.pc = "fold2"
    /\ ck' = [ck EXCEPT !.sum = Fold2(ck.sum), !.pc = "answer"]
    /\ UNCHANGED sendVars

\* answer = ~sum; return answer;
ck_return ==
    /\ ck.pc = "answer"
    /\ ck' = [ck EXCEPT !.answer = Answer(ck.sum), !.pc = "done"]
    /\ UNCHANGED sendVars

NextCk ==
    \/ ck_loop
    \/ ck_odd
    \/ ck_fold1
    \/ ck_fold2
    \/ ck_return

SpecCk == InitCk /\ [][NextCk]_vars

\* the statement-by-statement run returns what the operator checksum computes
CkAgrees == ck.pc = "done" => ck.answer = checksum(ck.p, BufLen(ck.p))

----------------------------------------------------------------------------
(* What a receiver computes from the bytes on the wire *)

\* the 16-bit / 32-bit big-endian integer at 1-based offset i of byte sequence m
BE16(m, i) == 256 * m[i] + m[i + 1]
BE32(m, i) == <<m[i], m[i + 1], m[i + 2], m[i + 3]>>

\* one's-complement (end-around-carry) addition of two 16-bit words
OnesAdd(x, y) == ((x + y) % 65536) + ((x + y) \div 65536)

\* m with a zero byte appended when its length is odd
PadEven(m) == IF Len(m) % 2 = 1 THEN Append(m, 0) ELSE m

\* one's-complement sum of the big-endian words of an even-length byte sequence
RECURSIVE OnesSumBE(_)
OnesSumBE(m) == IF m = <<>> THEN 0 ELSE OnesAdd(BE16(m, 1), OnesSumBE(SubSeq(m, 3, Len(m))))

\* the PDU buffer has been filled
Finished == BufLen(PDU) > 0

\* the pseudo-header a receiver forms from the PDU: the addresses of the IP
\* header, zero, protocol 6, and the number of bytes that follow the IP header
WirePseudoHeader(pdu) ==
    SubSeq(pdu.b, 13, 20) \o <<0, 6>>
    \o <<(BufLen(pdu) - 20) \div 256, (BufLen(pdu) - 20) % 256>>

\* the TCP header and the payload bytes given one by one (zero bytes follow)
TcpLayer(pdu) == SubSeq(pdu.b, 21, Len(pdu.b))

\* send_tcp_packet has handed the PDU to sendto and got its answer
AfterSendto == pc \in {"free", "returned", "main_return"} \/ (pc = "exited" /\ Finished)

\* some sendto request was accepted by the OS
SegmentSent == \E i \in 1..Len(sendto_calls) : sendto_calls[i].result >= 0

----------------------------------------------------------------------------
(* Claims *)

\* C1: for every finished PDU with a payload of 0..65495 bytes, even or odd,
\* the one's-complement sum of the big-endian words of pseudo-header, TCP
\* header (checksum in place) and payload, zero-padded to even length for the
\* sum only, is 0xFFFF; the PDU itself carries no pad byte.
C1_TcpChecksumVerifies ==
    (Finished /\ arg.data_length <= 65495) =>
        /\ OnesSumBE(PadEven(WirePseudoHeader(PDU) \o TcpLayer(PDU))) = 65535
        /\ BufLen(PDU) = 40 + arg.data_length

\* C1 witness: a finished PDU whose one-byte payload 0xFF is the odd trailing byte
C1_Witness ==
    /\ Finished
    /\ arg.data_length = 1
    /\ arg.data.b = <<255>>
    /\ PDU.b[41] = 255
    /\ OnesSumBE(PadEven(WirePseudoHeader(PDU) \o TcpLayer(PDU))) = 65535

\* C2: for every finished PDU with a payload of 0..65495 bytes, the
\* one's-complement sum of the ten big-endian words of the IP header is 0xFFFF,
\* and the stored checksum is the checksum of the header as finished with its
\* checksum field zero.
C2_IpChecksumVerifies ==
    (Finished /\ arg.data_length <= 65495) =>
        LET h == SubSeq(PDU.b, 1, 20)
        IN /\ OnesSumBE(h) = 65535
           /\ Load16(h, 11) = checksum(Mem([h EXCEPT ![11] = 0, ![12] = 0]), 20)

\* C2 witness: a finished PDU from 255.255.255.255 with the largest payload
C2_Witness ==
    /\ Finished
    /\ arg.data_length = 65495
    /\ arg.source_address = Num32(65535, 65535)
    /\ OnesSumBE(SubSeq(PDU.b, 1, 20)) = 65535
    /\ BE16(PDU.b, 11) # 0

\* C3 as claimed: a payload of 65496 bytes or more is rejected with a
\* payload-too-large error and nothing is handed to sendto, a payload of 65495
\* bytes is sent, and the total length field is never truncated (looked at once
\* the send has ended, in runs whose allocations and socket() succeeded).
C3_PayloadLimit ==
    (AfterSendto /\ ~nullDeref /\ sockfd >= 0) =>
        /\ sendto_calls # <<>> => arg.data_length <= 65495
        /\ arg.data_length = 65495 => Len(sendto_calls) = 1
        /\ BE16(PDU.b, 3) = 40 + arg.data_length

\* C4 as claimed: the big-endian integers at TCP bytes 0-1, 2-3, 4-7 and 8-11
\* of the finished PDU are the values passed to send_tcp_packet.
C4_HostOrderArguments ==
    Finished =>
        /\ BE16(PDU.b, 21) = arg.source_port
        /\ BE16(PDU.b, 23) = arg.destination_port
        /\ BE32(PDU.b, 25) = arg.sequence_number
        /\ BE32(PDU.b, 29) = arg.acknowledgement_number

\* C4 as amended: send_tcp_packet stores its port, sequence and acknowledgement
\* arguments unswapped, so the big-endian integers on the wire are the
\* byte-swapped arguments; main swaps before the call, so the wire carries the
\* ports of the command line (modulo 2^16), sequence number 0x1000 and
\* acknowledgement number 0.
C4_NetworkOrderArguments ==
    Finished =>
        /\ BE16(PDU.b, 21) = htons(arg.source_port)
        /\ BE16(PDU.b, 23) = htons(arg.destination_port)
        /\ BE32(PDU.b, 25) = htonl(arg.sequence_number)
        /\ BE32(PDU.b, 29) = htonl(arg.acknowledgement_number)
        /\ argv.argc # 0 =>
            /\ BE16(PDU.b, 21) = atoi(argv.src_port) % 65536
            /\ BE16(PDU.b, 23) = atoi(argv.dst_port) % 65536
            /\ BE32(PDU.b, 25) = Num32(0, 4096)
            /\ BE32(PDU.b, 29) = Num32(0, 0)

\* C4 witness: a direct call with source port 12345 in host order has put
\* 0x39 0x30 on the wire
C4_Witness ==
    /\ Finished
    /\ argv.argc = 0
    /\ arg.source_port = 12345
    /\ SubSeq(PDU.b, 21, 22) = <<57, 48>>
    /\ BE16(PDU.b, 21) = 14640

\* C5 as claimed: a send makes at most one sendto request and reports at most
\* one failure; when socket() fails, only the socket failure is reported and
\* sendto is not called (in runs whose allocations succeeded).
C5_TransmitOutcome ==
    (AfterSendto /\ ~nullDeref) =>
        /\ Len(sendto_calls) <= 1
        /\ Len(stderr) <= 1
        /\ sockfd < 0 => (sendto_calls = <<>> /\ stderr = <<"Error creating socket">>)

\* C6 as claimed: the process exits 0 exactly when the segment was sent, and 1
\* on a wrong argument count or a failed send (in runs whose allocations
\* succeeded).
C6_ExitStatus ==
    (pc = "exited" /\ ~nullDeref) => exit_status = (IF SegmentSent THEN 0 ELSE 1)

\* C7 as claimed: when an allocation fails nothing is stored through the null
\* pointer, an out-of-memory error is reported and sendto is not called.
C7_AllocationFailure ==
    /\ ~nullDeref
    /\ exit_status # 139

\* C8 as claimed: the bytes of the returned value, stored unswapped, are the
\* complement of the big-endian end-around-carry sum of the range (odd last
\* byte as a high byte); an empty range gives 0xFFFF; after the two folds the
\* upper 16 bits of the accumulator are zero; the accumulator does not overflow.
C8_ChecksumReferenceNoCarry ==
    LET ref == OnesSumBE(PadEven(ck.p.b))
    IN /\ ck.pc = "done" => Store16(ck.answer) = <<(65535 - ref) \div 256, (65535 - ref) % 256>>
       /\ (ck.pc = "done" /\ BufLen(ck.p) = 0) => ck.answer = 65535
       /\ ck.pc \in {"answer", "done"} => ck.sum \div 65536 = 0
       /\ ck.sum <= 65535 * ((ck.ptr + 1) \div 2)
       /\ 65535 * ((12 + 20 + 65495 + 1) \div 2) <= 2147483647

\* C8 as amended: as claimed, except that after the two folds the upper 16
\* bits of the accumulator may still hold a carry of 1, which the conversion
\* to 16 bits drops; the low 16 bits are the end-around-carry sum of the
\* host-order words, that is the byte-swapped big-endian sum.
C8_ChecksumReference ==
    LET ref == OnesSumBE(PadEven(ck.p.b))
    IN /\ ck.pc = "done" => Store16(ck.answer) = <<(65535 - ref) \div 256, (65535 - ref) % 256>>
       /\ (ck.pc = "done" /\ BufLen(ck.p) = 0) => ck.answer = 65535
       /\ ck.pc \in {"answer", "done"} =>
            /\ ck.sum \div 65536 <= 1
            /\ htons(ck.sum % 65536) = ref
       /\ ck.sum <= 65535 * ((ck.ptr + 1) \div 2)
       /\ 65535 * ((12 + 20 + 65495 + 1) \div 2) <= 2147483647

\* C8 witness: FF FF FF FF 01 00 sums to 0x1FFFF, the folds leave 0x10001 and
\* the wire carries FE FF
C8_Witness ==
    /\ ck.pc = "done"
    /\ ck.p.b = <<255, 255, 255, 255, 1, 0>>
    /\ ck.sum = 65537
    /\ Store16(ck.answer) = <<254, 255>>

\* C9: for every payload of 0..65495 bytes the total length field of the
\* finished PDU is 40 + payload length, the TCP length of the pseudo-header is
\* 20 + payload length, and that is the total length minus 20 and the number of
\* bytes after the IP header in the PDU and in every buffer handed to sendto.
C9_LengthConsistency ==
    (Finished /\ arg.data_length <= 65495) =>
        /\ BE16(PDU.b, 3) = 20 + 20 + arg.data_length
        /\ BE16(ph, 11) = 20 + arg.data_length
        /\ BE16(ph, 11) = BE16(PDU.b, 3) - 20
        /\ BE16(ph, 11) = BufLen(PDU) - 20
        /\ \A i \in 1..Len(sendto_calls) :
            /\ sendto_calls[i].len = BufLen(sendto_calls[i].buf)
            /\ BE16(ph, 11) = BufLen(sendto_calls[i].buf) - 20

\* C9 witness: the largest payload has been handed to sendto with total length 65535
C9_Witness ==
    /\ AfterSendto
    /\ arg.data_length = 65495
    /\ Len(sendto_calls) = 1
    /\ BufLen(sendto_calls[1].buf) = 65535
    /\ BE16(PDU.b, 3) = 65535
    /\ BE16(ph, 11) = 65515

\* C10: TCP byte 13 of the finished PDU has the low six bits of the flags
\* argument in its low six bits and zero in its high two bits.
C10_FlagPacking ==
    Finished =>
        /\ PDU.b[34] % 64 = arg.flags % 64
        /\ PDU.b[34] \div 64 = 0

\* C10 witness: flags 0xD2 (SYN, ACK and both high bits) gave byte 0x12
C10_Witness ==
    /\ Finished
    /\ arg.flags = 210
    /\ PDU.b[34] = 18

====
